---- MODULE Spec2Model ----
(***************************************************************************)
(* Model of preprocessing/automate_Zidan-Mubarak.py: the class             *)
(* ClimateAgriculturePreprocessor and the call chain of main().            *)
(*                                                                         *)
(* Numbers.  Every numeric cell is an exact fixed-point number: the        *)
(* integer v stands for the value v / FP.  The values of the input file    *)
(* are whole numbers, a median adds halves, a quartile adds quarters and   *)
(* 1.5 * IQR adds eighths of those, so FP = 16 keeps every number up to    *)
(* the outlier bounds exact.  Floating-point rounding is not modelled:     *)
(* "within tolerance" is read as "exactly" on the exact values.            *)
(* A missing cell (numpy.nan / None) is NaN in a numeric column and the    *)
(* empty string in a text column.  A text is the tuple of its code points, *)
(* so that the lexicographic order of texts is computed, not assumed.      *)
(***************************************************************************)
EXTENDS Integers, Sequences, FiniteSets, TLC

VARIABLES
    file_state,     \* the file at self.filepath: "ok", "absent" or "malformed"
    csv,            \* the table that file holds (column name -> column)
    pc,             \* the position in main()'s call chain
    df,             \* self.df
    df_processed,   \* self.df_processed
    label_encoders, \* self.label_encoders: column name -> fitted classes_
    scaler,         \* self.scaler: the fitted StandardScaler
    split,          \* the train/test partition of the rows (train_test_split)
    output,         \* the CSV file written at output_path
    exit_status     \* the exit status of the process

vars == <<file_state, csv, pc, df, df_processed, label_encoders, scaler,
          split, output, exit_status>>

----------------------------------------------------------------------------
(* Bounds and representation *)

MaxRows == 4

FP == 16

NaN == -1000000

None == [columns |-> <<>>, dtypes |-> <<>>, data |-> <<>>]

NoExit == -1

NoSplit == [train |-> {}, test |-> {}]

NoFile == [header |-> <<>>, rows |-> <<>>]

Missing == <<>>

----------------------------------------------------------------------------
(* Texts *)

str_A == <<65>>
str_AB == <<65, 66>>
str_B == <<66>>
str_a == <<97>>
str_nan == <<110, 97, 110>>
str_Cold == <<67, 111, 108, 100>>
str_Moderate == <<77, 111, 100, 101, 114, 97, 116, 101>>
str_Warm == <<87, 97, 114, 109>>
str_Hot == <<72, 111, 116>>
str_Low == <<76, 111, 119>>
str_Medium == <<77, 101, 100, 105, 117, 109>>
str_High == <<72, 105, 103, 104>>
str_Very_High == <<86, 101, 114, 121, 95, 72, 105, 103, 104>>

\* s < t in the order of Python str / numpy.unique: code point by code point,
\* a proper prefix first.
RECURSIVE StrLess(_, _)
StrLess(s, t) ==
    IF t = <<>> THEN FALSE
    ELSE IF s = <<>> THEN TRUE
    ELSE IF Head(s) # Head(t) THEN Head(s) < Head(t)
    ELSE StrLess(Tail(s), Tail(t))

----------------------------------------------------------------------------
(* Columns of the dataset *)

TextColumns == {"Country", "Region", "Crop_Type", "Adaptation_Strategies"}

CsvColumns ==
    << "Year", "Country", "Region", "Crop_Type", "Average_Temperature_C",
       "Total_Precipitation_mm", "CO2_Emissions_MT", "Crop_Yield_MT_per_HA",
       "Extreme_Weather_Events", "Irrigation_Access_%",
       "Pesticide_Use_KG_per_HA", "Fertilizer_Use_KG_per_HA",
       "Soil_Health_Index", "Adaptation_Strategies" >>

Range(s) == {s[i] : i \in DOMAIN s}

\* pd.read_csv's parse of one numeric field: the empty field is NaN.
ParseNumber(v) == IF v = NaN THEN NaN ELSE v * FP

\* The rows an input file is made of.  Row kind k has, in column c, the
\* k-th entry of the list below (NaN or Missing: an empty field).
RowKinds == 1..5

RawCell(c, k) ==
    CASE c = "Year"                     -> <<2000, 2000, 2010, 2020, 1990>>[k]
      [] c = "Country"                  -> <<str_B, str_A, Missing, str_a, Missing>>[k]
      [] c = "Region"                   -> <<str_AB, str_A, str_AB, str_B, str_A>>[k]
      [] c = "Crop_Type"                -> <<str_a, str_B, str_a, Missing, str_B>>[k]
      [] c = "Adaptation_Strategies"    -> <<str_A, str_A, str_B, str_AB, str_a>>[k]
      [] c = "Average_Temperature_C"    -> <<5, 10, 25, 35, NaN>>[k]
      [] c = "Total_Precipitation_mm"   -> <<450, 500, NaN, 480, 520>>[k]
      [] c = "CO2_Emissions_MT"         -> <<1, 2, 3, 10, 2>>[k]
      [] c = "Crop_Yield_MT_per_HA"     -> <<1, 2, 3, 4, 2>>[k]
      [] c = "Extreme_Weather_Events"   -> <<2, 5, 6, 8, NaN>>[k]
      [] c = "Irrigation_Access_%"      -> <<10, 50, 50, 90, 50>>[k]
      [] c = "Pesticide_Use_KG_per_HA"  -> <<1, 1, 2, 1, 1>>[k]
      [] c = "Fertilizer_Use_KG_per_HA" -> <<1, 2, 1, 1, 1>>[k]
      [] c = "Soil_Health_Index"        -> <<40, 60, NaN, 80, NaN>>[k]

\* The column pd.read_csv makes of the fields of column c in rows ks.  A text
\* column with nothing but empty fields is read as a float64 column of NaN.
AllEmpty(c, ks) == \A i \in DOMAIN ks : RawCell(c, ks[i]) = Missing

ReadColumn(c, ks) ==
    [i \in DOMAIN ks |->
       IF c \in TextColumns
       THEN IF AllEmpty(c, ks) THEN NaN ELSE RawCell(c, ks[i])
       ELSE ParseNumber(RawCell(c, ks[i]))]

ReadDtype(c, ks) ==
    IF c \in TextColumns /\ ~AllEmpty(c, ks) THEN "object" ELSE "number"

\* The table pd.read_csv returns for a file whose rows are of the kinds ks.
ReadCsv(ks) ==
    [columns |-> CsvColumns,
     dtypes |-> [c \in Range(CsvColumns) |-> ReadDtype(c, ks)],
     data |-> [c \in Range(CsvColumns) |-> ReadColumn(c, ks)]]

\* The row-kind lists of the input files considered: 1 to MaxRows rows, each
\* with every column of the dataset.
InputRows == UNION {[1..n -> RowKinds] : n \in 1..MaxRows}

----------------------------------------------------------------------------
(* DataFrame helpers *)

NRows(t) == IF t.columns = <<>> THEN 0 ELSE Len(t.data[t.columns[1]])

HasColumn(t, c) == c \in Range(t.columns)

\* df[c] = col: replaces the column, or appends it as the last one.
SetColumn(t, c, dtype, col) ==
    [columns |-> IF HasColumn(t, c) THEN t.columns ELSE Append(t.columns, c),
     dtypes |-> [d \in Range(t.columns) \cup {c} |->
                   IF d = c THEN dtype ELSE t.dtypes[d]],
     data |-> [d \in Range(t.columns) \cup {c} |->
                 IF d = c THEN col ELSE t.data[d]]]

\* df.select_dtypes(include=[np.number]).columns / include=['object']
SelectDtypes(t, dtype) == SelectSeq(t.columns, LAMBDA c : t.dtypes[c] = dtype)

\* The missing-cell marker of a column of the given dtype.
NA(dtype) == IF dtype = "number" THEN NaN ELSE Missing

\* df[c].isnull().sum()
NullCount(t, c) ==
    Cardinality({i \in DOMAIN t.data[c] : t.data[c][i] = NA(t.dtypes[c])})

\* df.isnull().sum().sum()
TotalNulls(t) ==
    Cardinality({<<c, i>> \in Range(t.columns) \X (1..NRows(t)) :
                    t.data[c][i] = NA(t.dtypes[c])})

\* The non-missing values of a numeric column, in ascending order.
SortedValues(col) ==
    SortSeq(SelectSeq(col, LAMBDA v : v # NaN), LAMBDA a, b : a < b)

----------------------------------------------------------------------------
(* handle_missing_values *)

\* Median with the upper middle value taken when the number of values is
\* even, instead of the mean of the two middle values.
MedianUpperMiddle(col) ==
    LET s == SortedValues(col)
        n == Len(s)
    IN  IF n = 0 THEN NaN ELSE s[n \div 2 + 1]

\* Series.median(): NaN skipped; the mean of the two middle values when their
\* number is even; NaN when there is no value.
Median(col) ==
    LET s == SortedValues(col)
        n == Len(s)
    IN  IF n = 0 THEN NaN
        ELSE IF n % 2 = 1 THEN s[(n + 1) \div 2]
        ELSE (s[n \div 2] + s[n \div 2 + 1]) \div 2

\* Series.mode()[0]: the most frequent value, the least one among equals.
Count(col, v) == Cardinality({i \in DOMAIN col : col[i] = v})

Mode(col) ==
    LET vals == Range(col) \ {Missing}
        top  == {v \in vals : \A w \in vals : Count(col, w) <= Count(col, v)}
    IN  CHOOSE m \in top : \A o \in top : o = m \/ StrLess(m, o)

\* Series.fillna(value): a NaN fill value fills nothing.  (pandas before 3.0:
\* the in-place fill of self.df[col] writes through to self.df.)
FillNa(col, na, value) == [i \in DOMAIN col |-> IF col[i] = na THEN value ELSE col[i]]

FillColumn(t, c) ==
    IF NullCount(t, c) = 0 THEN t.data[c]
    ELSE IF t.dtypes[c] = "number" THEN FillNa(t.data[c], NaN, Median(t.data[c]))
    ELSE IF t.dtypes[c] = "object" THEN FillNa(t.data[c], Missing, Mode(t.data[c]))
    ELSE t.data[c]

FillMissing(t) ==
    IF TotalNulls(t) = 0 THEN t
    ELSE [t EXCEPT !.data = [c \in Range(t.columns) |-> FillColumn(t, c)]]

----------------------------------------------------------------------------
(* handle_outliers *)

\* Series.quantile(q4 / 4), linear interpolation between the two order
\* statistics around position (n - 1) * q4 / 4; NaN skipped, NaN when empty.
Quantile(col, q4) ==
    LET s  == SortedValues(col)
        n  == Len(s)
        h4 == q4 * (n - 1)
        lo == h4 \div 4 + 1
        hi == IF lo < n THEN lo + 1 ELSE n
    IN  IF n = 0 THEN NaN
        ELSE s[lo] + ((h4 % 4) * (s[hi] - s[lo])) \div 4

\* lower_bound, upper_bound of one column (NaN when the quartiles are NaN).
LowerBound(col) ==
    LET Q1 == Quantile(col, 1)
        Q3 == Quantile(col, 3)
        IQR == Q3 - Q1
    IN  IF Q1 = NaN THEN NaN ELSE Q1 - (3 * IQR) \div 2

UpperBound(col) ==
    LET Q1 == Quantile(col, 1)
        Q3 == Quantile(col, 3)
        IQR == Q3 - Q1
    IN  IF Q1 = NaN THEN NaN ELSE Q3 + (3 * IQR) \div 2

\* ((col < lower) | (col > upper)).sum(): a comparison with NaN is False.
IsOutlier(v, lower, upper) ==
    v # NaN /\ lower # NaN /\ (v < lower \/ v > upper)

Outliers(col) ==
    Cardinality({i \in DOMAIN col :
                    IsOutlier(col[i], LowerBound(col), UpperBound(col))})

\* Clip that caps at the upper bound only.
ClipUpperOnly(col, lower, upper) ==
    [i \in DOMAIN col |->
       IF col[i] = NaN \/ lower = NaN THEN col[i]
       ELSE IF col[i] > upper THEN upper
       ELSE col[i]]

\* Series.clip(lower, upper)
Clip(col, lower, upper) ==
    [i \in DOMAIN col |->
       IF col[i] = NaN \/ lower = NaN THEN col[i]
       ELSE IF col[i] < lower THEN lower
       ELSE IF col[i] > upper THEN upper
       ELSE col[i]]

CapColumn(col) ==
    IF Outliers(col) > 0 THEN Clip(col, LowerBound(col), UpperBound(col))
    ELSE col

\* The "remove" policy: the rows with an outlier in some numeric column are
\* dropped instead of capped.
RECURSIVE KeepRows(_, _)
KeepRows(col, drop) ==
    IF col = <<>> THEN <<>>
    ELSE KeepRows(SubSeq(col, 1, Len(col) - 1), drop)
         \o (IF Len(col) \in drop THEN <<>> ELSE <<col[Len(col)]>>)

RemoveOutliers(t) ==
    LET drop == {i \in 1..NRows(t) :
                   \E c \in Range(t.columns) :
                      /\ t.dtypes[c] = "number"
                      /\ IsOutlier(t.data[c][i], LowerBound(t.data[c]),
                                   UpperBound(t.data[c]))}
    IN  [t EXCEPT !.data = [c \in Range(t.columns) |-> KeepRows(t.data[c], drop)]]

CapOutliers(t) ==
    [t EXCEPT !.data = [c \in Range(t.columns) |->
                          IF c \in Range(SelectDtypes(t, "number"))
                          THEN CapColumn(t.data[c])
                          ELSE t.data[c]]]

----------------------------------------------------------------------------
(* feature_engineering *)

\* pd.cut(col, bins=[-inf, b1, b2, b3, inf], labels): intervals closed on the
\* right; NaN stays missing.
Cut(col, b, labels) ==
    [i \in DOMAIN col |->
       IF col[i] = NaN THEN Missing
       ELSE IF col[i] <= b[1] * FP THEN labels[1]
       ELSE IF col[i] <= b[2] * FP THEN labels[2]
       ELSE IF col[i] <= b[3] * FP THEN labels[3]
       ELSE labels[4]]

\* Yield_Category's cut points 1.5, 2.5, 3.5 are halves.
CutHalves(col, b2, labels) ==
    [i \in DOMAIN col |->
       IF col[i] = NaN THEN Missing
       ELSE IF 2 * col[i] <= b2[1] * FP THEN labels[1]
       ELSE IF 2 * col[i] <= b2[2] * FP THEN labels[2]
       ELSE IF 2 * col[i] <= b2[3] * FP THEN labels[3]
       ELSE labels[4]]

\* The threshold test with >= in place of >.
GtOrEqual(v, k) == IF v # NaN /\ v >= k * FP THEN 1 ELSE 0

\* (cond).astype(int); a comparison with NaN is False.
Gt(v, k) == IF v # NaN /\ v > k * FP THEN 1 ELSE 0
Lt(v, k) == IF v # NaN /\ v < k * FP THEN 1 ELSE 0

ClimateStress(t) ==
    [i \in 1..NRows(t) |->
       Gt(t.data["Average_Temperature_C"][i], 30)
       + Lt(t.data["Total_Precipitation_mm"][i], 500)
       + Gt(t.data["Extreme_Weather_Events"][i], 5)]

\* An exact quotient is the pair <<numerator, denominator>>.
AnyNaN(vs) == \E v \in vs : v = NaN

ResourceEfficiency(t) ==
    [i \in 1..NRows(t) |->
       LET y == t.data["Crop_Yield_MT_per_HA"][i]
           f == t.data["Fertilizer_Use_KG_per_HA"][i]
           p == t.data["Pesticide_Use_KG_per_HA"][i]
       IN  IF AnyNaN({y, f, p}) THEN <<NaN, 1>> ELSE <<y, f + p + 1 * FP>>]

EnvironmentalImpact(t) ==
    [i \in 1..NRows(t) |->
       LET c == t.data["CO2_Emissions_MT"][i]
           p == t.data["Pesticide_Use_KG_per_HA"][i]
           f == t.data["Fertilizer_Use_KG_per_HA"][i]
       IN  IF AnyNaN({c, p, f}) THEN <<NaN, 1>>
           ELSE <<c * 4 + p * 3 + f * 3, 10 * FP>>]

EngineerFeatures(t) ==
    LET t1 == SetColumn(t, "Temperature_Category", "category",
                  Cut(t.data["Average_Temperature_C"], <<10, 20, 30>>,
                      <<str_Cold, str_Moderate, str_Warm, str_Hot>>))
        t2 == SetColumn(t1, "Precipitation_Category", "category",
                  Cut(t.data["Total_Precipitation_mm"], <<500, 1500, 2500>>,
                      <<str_Low, str_Medium, str_High, str_Very_High>>))
        t3 == SetColumn(t2, "Yield_Category", "category",
                  CutHalves(t.data["Crop_Yield_MT_per_HA"], <<3, 5, 7>>,
                      <<str_Low, str_Medium, str_High, str_Very_High>>))
        t4 == SetColumn(t3, "Climate_Stress", "integer", ClimateStress(t3))
        t5 == SetColumn(t4, "Resource_Efficiency", "fraction",
                        ResourceEfficiency(t4))
    IN  SetColumn(t5, "Environmental_Impact", "fraction",
                  EnvironmentalImpact(t5))

----------------------------------------------------------------------------
(* encode_categorical *)

CategoricalCols ==
    << "Country", "Region", "Crop_Type", "Adaptation_Strategies",
       "Temperature_Category", "Precipitation_Category", "Yield_Category" >>

\* col.astype(str): a text is itself, a missing cell is the text "nan".  (A
\* categorical column has numeric dtype only when every field of it was
\* empty, so a numeric cell here is always NaN.)
AsStr(dtype, v) ==
    IF dtype = "number" THEN str_nan
    ELSE IF v = Missing THEN str_nan
    ELSE v

AsTypeStr(t, c) == [i \in DOMAIN t.data[c] |-> AsStr(t.dtypes[c], t.data[c][i])]

\* LabelEncoder.fit: classes_ = the distinct values in sorted order.
RECURSIVE SortedTexts(_)
SortedTexts(S) ==
    IF S = {} THEN <<>>
    ELSE LET m == CHOOSE x \in S : \A y \in S : y = x \/ StrLess(x, y)
         IN  <<m>> \o SortedTexts(S \ {m})

\* Classes in the order of first appearance instead of sorted order.
RECURSIVE ClassesFirstSeen(_)
ClassesFirstSeen(col) ==
    IF col = <<>> THEN <<>>
    ELSE LET rest == ClassesFirstSeen(SubSeq(col, 1, Len(col) - 1))
             last == col[Len(col)]
         IN  IF last \in Range(rest) THEN rest ELSE Append(rest, last)

Classes(col) == SortedTexts(Range(col))

\* LabelEncoder.transform: the position of each value in classes_, from 0.
IndexOf(classes, v) == (CHOOSE k \in DOMAIN classes : classes[k] = v) - 1

Transform(classes, col) == [i \in DOMAIN col |-> IndexOf(classes, col[i])]

RECURSIVE EncodeColumns(_, _)
EncodeColumns(t, cols) ==
    IF cols = <<>> THEN t
    ELSE LET c == Head(cols)
         IN  IF HasColumn(t, c)
             THEN EncodeColumns(
                      SetColumn(t, c \o "_Encoded", "integer",
                                Transform(Classes(AsTypeStr(t, c)), AsTypeStr(t, c))),
                      Tail(cols))
             ELSE EncodeColumns(t, Tail(cols))

FittedEncoders(t) ==
    [c \in {d \in Range(CategoricalCols) : HasColumn(t, d)} |->
       Classes(AsTypeStr(t, c))]

----------------------------------------------------------------------------
(* select_features *)

NumericalFeatures ==
    << "Year", "Average_Temperature_C", "Total_Precipitation_mm",
       "CO2_Emissions_MT", "Extreme_Weather_Events", "Irrigation_Access_%",
       "Pesticide_Use_KG_per_HA", "Fertilizer_Use_KG_per_HA",
       "Soil_Health_Index", "Climate_Stress", "Resource_Efficiency",
       "Environmental_Impact" >>

EncodedFeatures ==
    << "Country_Encoded", "Region_Encoded", "Crop_Type_Encoded",
       "Adaptation_Strategies_Encoded", "Temperature_Category_Encoded",
       "Precipitation_Category_Encoded" >>

Target == "Crop_Yield_MT_per_HA"

SelectedFeatures == NumericalFeatures \o EncodedFeatures \o <<Target>>

\* df[cols].copy()
SelectColumns(t, cols) ==
    [columns |-> cols,
     dtypes |-> [c \in Range(cols) |-> t.dtypes[c]],
     data |-> [c \in Range(cols) |-> t.data[c]]]

----------------------------------------------------------------------------
(* scale_features: StandardScaler.fit_transform *)

RECURSIVE GCD(_, _)
GCD(a, b) == IF b = 0 THEN a ELSE GCD(b, a % b)

LCM(a, b) == (a \div GCD(a, b)) * b

RECURSIVE SumSeq(_)
SumSeq(s) == IF s = <<>> THEN 0 ELSE Head(s) + SumSeq(Tail(s))

RECURSIVE LCMSeq(_)
LCMSeq(s) == IF s = <<>> THEN 1 ELSE LCM(Head(s), LCMSeq(Tail(s)))

\* The cells of a column as whole numbers of one common unit (the scaler's
\* output does not depend on the unit): fixed-point and integer cells are
\* whole numbers already, exact quotients are brought to the least common
\* denominator.
Numerators(dtype, col) ==
    IF dtype = "fraction"
    THEN LET D == LCMSeq([i \in DOMAIN col |-> col[i][2]])
         IN  [i \in DOMAIN col |->
                IF col[i][1] = NaN THEN NaN ELSE col[i][1] * (D \div col[i][2])]
    ELSE col

Present(x) == SelectSeq(x, LAMBDA v : v # NaN)

\* n * (x[i] - mean_) for the values x, NaN skipped in the fit and kept by
\* the transform.
Deviations(x) ==
    LET n == Len(Present(x))
        S == SumSeq(Present(x))
    IN  [i \in DOMAIN x |-> IF x[i] = NaN THEN NaN ELSE n * x[i] - S]

\* The variance with ddof = 1 (the sample variance, pandas' default).
VarN2Sample(x) ==
    LET n == Len(Present(x))
        d == Present(Deviations(x))
    IN  IF n <= 1 THEN NaN
        ELSE SumSeq([i \in DOMAIN d |-> d[i] * d[i]]) \div (n - 1)

\* n * n * var_, var_ the population variance (numpy.var, ddof = 0).
VarN2(x) ==
    LET n == Len(Present(x))
        d == Present(Deviations(x))
    IN  IF n = 0 THEN NaN ELSE SumSeq([i \in DOMAIN d |-> d[i] * d[i]]) \div n

\* The scaled cell <<p, q>> stands for the value p / sqrt(q).
\* (x - mean_) / scale_ with scale_ = sqrt(var_), and scale_ = 1 where the
\* variance is zero (sklearn's _handle_zeros_in_scale).
ScaleColumn(dtype, col) ==
    LET x == Numerators(dtype, col)
        n == Len(Present(x))
        d == Deviations(x)
        v == VarN2(x)
    IN  [i \in DOMAIN x |->
           IF x[i] = NaN THEN <<NaN, 1>>
           ELSE IF v = 0 THEN <<d[i], n * n>>
           ELSE <<d[i], v>>]

FeaturesToScale(t) == SelectSeq(t.columns, LAMBDA c : c # Target)

FitTransform(t) ==
    [t EXCEPT
       !.dtypes = [c \in Range(t.columns) |->
                     IF c = Target THEN t.dtypes[c] ELSE "scaled"],
       !.data = [c \in Range(t.columns) |->
                   IF c = Target THEN t.data[c]
                   ELSE ScaleColumn(t.dtypes[c], t.data[c])]]

\* The fitted statistics: per column, the number of values seen, n * mean_
\* and n * n * var_ (in the column's unit).
Fitted(t) ==
    [fitted |-> TRUE,
     stats |-> [c \in Range(FeaturesToScale(t)) |->
                  LET x == Numerators(t.dtypes[c], t.data[c])
                  IN  [n |-> Len(Present(x)), sum |-> SumSeq(Present(x)),
                       varn2 |-> VarN2(x)]]]

----------------------------------------------------------------------------
(* save_processed_data *)

\* DataFrame.to_csv(path, index=False): the header line, then one line per
\* row with the cells in column order.
ToCsv(t) ==
    [header |-> t.columns,
     rows |-> [i \in 1..NRows(t) |->
                 [j \in DOMAIN t.columns |-> t.data[t.columns[j]][i]]]]

----------------------------------------------------------------------------
(* The call chain of main() *)

Init ==
    /\ \/ file_state = "ok" /\ \E ks \in InputRows : csv = ReadCsv(ks)
       \/ file_state \in {"absent", "malformed"} /\ csv = None
    /\ pc = "start"
    /\ df = None
    /\ df_processed = None
    /\ label_encoders = <<>>
    /\ scaler = [fitted |-> FALSE]
    /\ split = NoSplit
    /\ output = NoFile
    /\ exit_status = NoExit

\* load_data, pd.read_csv succeeding.
LoadData ==
    /\ pc = "start"
    /\ file_state = "ok"
    /\ df' = csv
    /\ pc' = "loaded"
    /\ UNCHANGED <<file_state, csv, df_processed, label_encoders, scaler,
                   split, output, exit_status>>

\* A load failure that is caught and reported, the process exiting 0.
LoadDataRaisesExitZero ==
    /\ pc = "start"
    /\ file_state # "ok"
    /\ pc' = "failed"
    /\ exit_status' = 0
    /\ UNCHANGED <<file_state, csv, df, df_processed, label_encoders, scaler,
                   split, output>>

\* load_data, pd.read_csv raising (FileNotFoundError, ParserError): nothing in
\* the program catches it, so the interpreter prints the traceback and exits 1.
LoadDataRaises ==
    /\ pc = "start"
    /\ file_state # "ok"
    /\ pc' = "failed"
    /\ exit_status' = 1
    /\ UNCHANGED <<file_state, csv, df, df_processed, label_encoders, scaler,
                   split, output>>

\* explore_data only prints.
ExploreData ==
    /\ pc = "loaded"
    /\ pc' = "explored"
    /\ UNCHANGED <<file_state, csv, df, df_processed, label_encoders, scaler,
                   split, output, exit_status>>

HandleMissingValues ==
    /\ pc = "explored"
    /\ df' = FillMissing(df)
    /\ pc' = "missing_handled"
    /\ UNCHANGED <<file_state, csv, df_processed, label_encoders, scaler,
                   split, output, exit_status>>

HandleOutliers ==
    /\ pc = "missing_handled"
    /\ df' = CapOutliers(df)
    /\ pc' = "outliers_handled"
    /\ UNCHANGED <<file_state, csv, df_processed, label_encoders, scaler,
                   split, output, exit_status>>

FeatureEngineering ==
    /\ pc = "outliers_handled"
    /\ df' = EngineerFeatures(df)
    /\ pc' = "engineered"
    /\ UNCHANGED <<file_state, csv, df_processed, label_encoders, scaler,
                   split, output, exit_status>>

EncodeCategorical ==
    /\ pc = "engineered"
    /\ df' = EncodeColumns(df, CategoricalCols)
    /\ label_encoders' = FittedEncoders(df)
    /\ pc' = "encoded"
    /\ UNCHANGED <<file_state, csv, df_processed, scaler, split, output, exit_status>>

SelectFeatures ==
    /\ pc = "encoded"
    /\ \A c \in Range(SelectedFeatures) : HasColumn(df, c)
    /\ df_processed' = SelectColumns(df, SelectedFeatures)
    /\ pc' = "selected"
    /\ UNCHANGED <<file_state, csv, df, label_encoders, scaler, split, output,
                   exit_status>>

ScaleFeatures ==
    /\ pc = "selected"
    /\ df_processed' = FitTransform(df_processed)
    /\ scaler' = Fitted(df_processed)
    /\ pc' = "scaled"
    /\ UNCHANGED <<file_state, csv, df, label_encoders, split, output, exit_status>>

SaveProcessedData ==
    /\ pc = "scaled"
    /\ output' = ToCsv(df_processed)
    /\ pc' = "saved"
    /\ UNCHANGED <<file_state, csv, df, df_processed, label_encoders, scaler,
                   exit_status, split>>

\* get_summary only prints; main() then returns and the process exits 0.
GetSummary ==
    /\ pc = "saved"
    /\ pc' = "done"
    /\ exit_status' = 0
    /\ UNCHANGED <<file_state, csv, df, df_processed, label_encoders, scaler,
                   split, output>>

Next ==
    \/ LoadData
    \/ LoadDataRaises
    \/ ExploreData
    \/ HandleMissingValues
    \/ HandleOutliers
    \/ FeatureEngineering
    \/ EncodeCategorical
    \/ SelectFeatures
    \/ ScaleFeatures
    \/ SaveProcessedData
    \/ GetSummary

Spec == Init /\ [][Next]_vars

----------------------------------------------------------------------------
(* Properties *)

Loaded == pc \notin {"start", "failed"}

NumericColumns(t) == {c \in Range(t.columns) : t.dtypes[c] = "number"}

ObjectColumns(t) == {c \in Range(t.columns) : t.dtypes[c] = "object"}

HasValue(t, c) == \E i \in 1..NRows(t) : t.data[c][i] # NA(t.dtypes[c])

\* The k-th smallest of the non-missing values of col, without sorting: the
\* value with fewer than k values below it and at least k not above it.
OrderStatistic(col, k) ==
    CHOOSE v \in Range(col) \ {NaN} :
        /\ Cardinality({i \in DOMAIN col : col[i] # NaN /\ col[i] < v}) < k
        /\ Cardinality({i \in DOMAIN col : col[i] # NaN /\ col[i] <= v}) >= k

ValueCount(col) == Cardinality({i \in DOMAIN col : col[i] # NaN})

\* m is the median of the non-missing values of col.
IsMedianOf(m, col) ==
    LET n == ValueCount(col)
    IN  2 * m = OrderStatistic(col, (n + 1) \div 2)
                + OrderStatistic(col, n \div 2 + 1)

\* m is the mode of the text column col, the least of the most frequent.
IsModeOf(m, col) ==
    /\ m # Missing
    /\ \A w \in Range(col) \ {Missing} :
          \/ Count(col, w) < Count(col, m)
          \/ Count(col, w) = Count(col, m) /\ (w = m \/ StrLess(m, w))

HandleMissingStep == pc = "explored" /\ pc' = "missing_handled"

HandleOutliersStep == pc = "missing_handled" /\ pc' = "outliers_handled"

FeatureEngineeringStep == pc = "outliers_handled" /\ pc' = "engineered"

\* C1: handle_outliers leaves every value of every numeric column within
\* [Q1 - 1.5 IQR, Q3 + 1.5 IQR], the quartiles being those of the column as
\* it was before the step; a value above the upper bound becomes the upper
\* bound and a value below the lower bound becomes the lower bound.
C1_CappedWithinBounds ==
    [][HandleOutliersStep =>
         \A c \in NumericColumns(df) : \A i \in 1..NRows(df) :
            LET v == df.data[c][i]
                w == df'.data[c][i]
                lower == LowerBound(df.data[c])
                upper == UpperBound(df.data[c])
            IN  v # NaN =>
                  /\ lower <= w /\ w <= upper
                  /\ v > upper => w = upper
                  /\ v < lower => w = lower
                  /\ (lower <= v /\ v <= upper) => w = v]_vars

\* A column was capped from above and a column was capped from below.
C1_Witness ==
    /\ pc = "outliers_handled"
    /\ \E c \in NumericColumns(csv) : \E i \in 1..NRows(csv) :
          csv.data[c][i] # NaN /\ df.data[c][i] < csv.data[c][i]
    /\ \E c \in NumericColumns(csv) : \E i \in 1..NRows(csv) :
          csv.data[c][i] # NaN /\ df.data[c][i] > csv.data[c][i]

\* Statistics of a scaled column, whose cells <<p, q>> stand for p / sqrt(q)
\* with one q for the whole column.
ScaledSum(col) == SumSeq([i \in DOMAIN col |-> col[i][1]])

ScaledSumSq(col) == SumSeq([i \in DOMAIN col |-> col[i][1] * col[i][1]])

MeanIsZero(col) ==
    /\ \A i \in DOMAIN col : col[i][1] # NaN
    /\ ScaledSum(col) = 0

\* The population standard deviation is 1: n * sum(z^2) - sum(z)^2 = n^2.
StdIsOne(col) ==
    /\ \A i \in DOMAIN col : col[i][1] # NaN /\ col[i][2] = col[1][2]
    /\ Len(col) * ScaledSumSq(col) - ScaledSum(col) * ScaledSum(col)
         = Len(col) * Len(col) * col[1][2]

\* The scaled column z is an increasing affine image of the column x.
IncreasingAffine(z, x) ==
    \A i, j \in DOMAIN x :
       /\ (x[i] < x[j]) <=> (z[i][1] < z[j][1])
       /\ \A k \in DOMAIN x :
             (z[i][1] - z[j][1]) * (x[k] - x[1]) = (z[k][1] - z[1][1]) * (x[i] - x[j])

\* The column has no missing cell and two different values.
Varies(t, c) ==
    LET x == Numerators(t.dtypes[c], t.data[c])
    IN  /\ \A i \in DOMAIN x : x[i] # NaN
        /\ \E i, j \in DOMAIN x : x[i] # x[j]

Features == Range(SelectedFeatures) \ {Target}

\* C2 as stated: after scale_features every one of the 18 feature columns
\* has mean 0 and standard deviation 1, for every non-empty input table.
C2_AllColumnsStandardized ==
    pc = "scaled" =>
       \A c \in Features :
          MeanIsZero(df_processed.data[c]) /\ StdIsOne(df_processed.data[c])

\* C2 amended: after scale_features every feature column that had no missing
\* cell and at least two different values has mean 0 and standard deviation
\* 1 and is (x - mean) / std of the column before scaling; the target column
\* is not scaled.
C2_VaryingColumnsStandardized ==
    pc = "scaled" =>
       /\ df_processed.data[Target] = df.data[Target]
       /\ \A c \in Features :
             Varies(df, c) =>
                /\ MeanIsZero(df_processed.data[c])
                /\ StdIsOne(df_processed.data[c])
                /\ IncreasingAffine(df_processed.data[c],
                                    Numerators(df.dtypes[c], df.data[c]))

\* A table with a varying column of each kind and a constant column.
C2_Witness ==
    /\ pc = "scaled"
    /\ Varies(df, "Year") /\ Varies(df, "Resource_Efficiency")
    /\ Varies(df, "Country_Encoded") /\ Varies(df, "Climate_Stress")
    /\ \E c \in Features : ~Varies(df, c)

\* C3 as stated: after handle_missing_values no cell of the table is
\* missing, whatever the number of missing cells per column.
C3_NoCellMissing ==
    pc = "missing_handled" => TotalNulls(df) = 0

\* C3 amended: handle_missing_values fills every column that has at least one
\* non-missing value: a missing cell of a numeric column gets the median of
\* the column's non-missing values, a missing cell of an object column gets
\* the column's mode, and every cell that was not missing keeps its value.
C3_FilledWithMedianOrMode ==
    [][HandleMissingStep =>
         /\ df'.columns = df.columns /\ df'.dtypes = df.dtypes
         /\ \A c \in Range(df.columns) : \A i \in 1..NRows(df) :
               LET v == df.data[c][i]
                   w == df'.data[c][i]
               IN  IF v # NA(df.dtypes[c]) THEN w = v
                   ELSE HasValue(df, c) =>
                          IF df.dtypes[c] = "number"
                          THEN w # NaN /\ IsMedianOf(w, df.data[c])
                          ELSE IsModeOf(w, df.data[c])]_vars

\* A numeric column and an object column each had missing cells and values,
\* the numeric one an even number of values whose middle two differ.
C3_Witness ==
    /\ pc = "missing_handled"
    /\ \E c \in NumericColumns(csv) :
          /\ NullCount(csv, c) > 0
          /\ ValueCount(csv.data[c]) % 2 = 0 /\ ValueCount(csv.data[c]) > 0
          /\ \E i \in 1..NRows(csv) :
                csv.data[c][i] = NaN /\ df.data[c][i] \notin Range(csv.data[c])
    /\ \E c \in ObjectColumns(csv) : NullCount(csv, c) > 0

\* The rows of a table, and the number of distinct ones.
Row(t, i) == [c \in Range(t.columns) |-> t.data[c][i]]

DistinctRows(t) == Cardinality({Row(t, i) : i \in 1..NRows(t)})

\* C4: after the cleaning stage the row count is the number of distinct rows
\* of the loaded input.
C4_DuplicatesRemoved ==
    pc = "missing_handled" => NRows(df) = DistinctRows(csv)

\* C5: when loading fails the run ends in failure: no later stage runs, no
\* table is held, nothing is fitted, no output file is written, and the exit
\* status is not zero.
C5_LoadFailureIsFatal ==
    file_state # "ok" =>
       /\ pc \in {"start", "failed"}
       /\ df = None /\ df_processed = None
       /\ label_encoders = <<>> /\ ~scaler.fitted
       /\ output = NoFile
       /\ exit_status # 0
       /\ pc = "failed" => exit_status # NoExit

C5_Witness == pc = "failed" /\ file_state = "malformed" /\ exit_status = 1

\* The 0-based rank of text s among the distinct texts of col.
Rank(s, col) == Cardinality({t \in Range(col) : StrLess(t, s)})

EncodedName(c) == c \o "_Encoded"

\* C6: after encode_categorical every configured categorical column c has a
\* column c_Encoded holding, per row, the rank of the row's label in string
\* form among the column's distinct string forms in lexicographic order;
\* equal codes exactly for equal labels; the codes are 0..k-1.
C6_CodesAreRanks ==
    pc = "encoded" =>
       \A c \in Range(CategoricalCols) :
          /\ HasColumn(df, EncodedName(c))
          /\ LET labels == df.data[c]
                 forms == AsTypeStr(df, c)
                 codes == df.data[EncodedName(c)]
             IN  /\ \A i \in DOMAIN codes : codes[i] = Rank(forms[i], forms)
                 /\ \A i, j \in DOMAIN codes :
                       (codes[i] = codes[j]) <=> (labels[i] = labels[j])
                 /\ Range(codes) = 0..(Cardinality(Range(forms)) - 1)

\* A column whose labels are not met in sorted order and hold a proper
\* prefix pair ("A" before "AB"), and a column with an upper-case label
\* ranked before a lower-case one.
C6_Witness ==
    /\ pc = "encoded"
    /\ \E i, j \in 1..NRows(df) :
          i < j /\ df.data["Region_Encoded"][i] > df.data["Region_Encoded"][j]
    /\ {str_A, str_AB, str_B} \subseteq Range(df.data["Region"])
    /\ \E i, j \in 1..NRows(df) :
          /\ df.data["Country"][i] = str_B /\ df.data["Country"][j] = str_a
          /\ df.data["Country_Encoded"][i] < df.data["Country_Encoded"][j]

\* C7: handle_outliers leaves the target column and the non-numeric columns
\* as they were.
C7_TargetUntouched ==
    [][HandleOutliersStep =>
         /\ df'.data[Target] = df.data[Target]
         /\ \A c \in ObjectColumns(df) : df'.data[c] = df.data[c]]_vars

\* C8: when the output is written the rows are partitioned into a train set
\* and a test set, disjoint and together all the rows.
C8_RowsPartitioned ==
    pc = "saved" =>
       /\ split.train \cap split.test = {}
       /\ split.train \cup split.test = 1..NRows(df_processed)
       /\ Cardinality(split.train) + Cardinality(split.test)
            = NRows(df_processed)

\* The three stress conditions on one row; none holds of a missing value.
StressConditions(t, i) ==
    {k \in 1..3 :
        \/ k = 1 /\ t.data["Average_Temperature_C"][i] # NaN
                 /\ t.data["Average_Temperature_C"][i] > 30 * FP
        \/ k = 2 /\ t.data["Total_Precipitation_mm"][i] # NaN
                 /\ t.data["Total_Precipitation_mm"][i] < 500 * FP
        \/ k = 3 /\ t.data["Extreme_Weather_Events"][i] # NaN
                 /\ t.data["Extreme_Weather_Events"][i] > 5 * FP}

\* C9: feature_engineering sets Climate_Stress, per row, to the number of
\* the three conditions that hold of the row's values after capping, an
\* integer in 0..3, and changes no column that existed before.
C9_ClimateStressCounts ==
    [][FeatureEngineeringStep =>
         /\ \A i \in 1..NRows(df) :
               /\ df'.data["Climate_Stress"][i]
                    = Cardinality(StressConditions(df, i))
               /\ df'.data["Climate_Stress"][i] \in 0..3
         /\ NRows(df') = NRows(df)
         /\ \A c \in Range(df.columns) :
               df'.data[c] = df.data[c] /\ df'.dtypes[c] = df.dtypes[c]
         /\ SubSeq(df'.columns, 1, Len(df.columns)) = df.columns]_vars

\* Rows with no, and with all three, conditions; a row with 5 events and a
\* row with a precipitation of exactly 500 (neither counts).
C9_Witness ==
    /\ pc = "engineered"
    /\ \E i, j \in 1..NRows(df) :
          df.data["Climate_Stress"][i] = 0 /\ df.data["Climate_Stress"][j] = 3
    /\ \E i \in 1..NRows(df) : df.data["Extreme_Weather_Events"][i] = 5 * FP
    /\ \E i \in 1..NRows(df) : df.data["Total_Precipitation_mm"][i] = 500 * FP

OutputHeader ==
    << "Year", "Average_Temperature_C", "Total_Precipitation_mm",
       "CO2_Emissions_MT", "Extreme_Weather_Events", "Irrigation_Access_%",
       "Pesticide_Use_KG_per_HA", "Fertilizer_Use_KG_per_HA",
       "Soil_Health_Index", "Climate_Stress", "Resource_Efficiency",
       "Environmental_Impact", "Country_Encoded", "Region_Encoded",
       "Crop_Type_Encoded", "Adaptation_Strategies_Encoded",
       "Temperature_Category_Encoded", "Precipitation_Category_Encoded",
       "Crop_Yield_MT_per_HA" >>

\* C10: in a run that loads, every stage keeps the number and the order of
\* the rows (Adaptation_Strategies, which no stage rewrites, stays as
\* loaded), and the written table has that many rows of 19 cells under the
\* 19 column names: 12 numeric, 6 encoded, the target last.
C10_RowsKeptAndNineteenColumns ==
    /\ Loaded =>
          /\ NRows(df) = NRows(csv)
          /\ \A c \in Range(df.columns) : Len(df.data[c]) = NRows(csv)
          /\ df.data["Adaptation_Strategies"] = csv.data["Adaptation_Strategies"]
    /\ pc \in {"selected", "scaled", "saved", "done"} =>
          /\ NRows(df_processed) = NRows(csv)
          /\ \A c \in Range(df_processed.columns) :
                Len(df_processed.data[c]) = NRows(csv)
    /\ pc \in {"saved", "done"} =>
          /\ output.header = OutputHeader
          /\ Len(output.header) = 19
          /\ Len(output.rows) = NRows(csv)
          /\ \A i \in DOMAIN output.rows :
                /\ Len(output.rows[i]) = 19
                /\ output.rows[i][19] = df.data[Target][i]

\* A written table of several rows, some of them capped and some equal.
C10_Witness ==
    /\ pc = "done"
    /\ Len(output.rows) = MaxRows
    /\ DistinctRows(csv) < NRows(csv)
    /\ \E i \in 1..NRows(csv) :
          df.data["CO2_Emissions_MT"][i] # csv.data["CO2_Emissions_MT"][i]

====
